---- MODULE Spec2Model ----
(***************************************************************************)
(* Execution coordinator and signature collector of the Emergency Guardian *)
(* AI agents (src/ai-agents/src/execution_coordinator.py and               *)
(* src/ai-agents/src/signature_collector.py).                              *)
(*                                                                         *)
(* Both classes are asyncio code.  A coroutine runs without interruption   *)
(* until it awaits asyncio.sleep; an await of a coroutine that never       *)
(* sleeps does not give up the event loop.  Every action below is one such *)
(* uninterrupted stretch: from a call or a wake-up to the next sleep or    *)
(* return.  The clock `now` counts hours (the unit of timelock_hours); the *)
(* sleeps are seconds long, so any number of steps fits between two ticks  *)
(* and a tick may fall between any two steps.                              *)
(***************************************************************************)
EXTENDS Integers, Sequences, FiniteSets, Bags, TLC

\* ------------------------------------------------------------------ bounds
MaxRuns == 2        \* execute_plan invocations
MaxTime == 2        \* last hour the clock reaches
MaxSubmitter == 2   \* guardians 1..MaxSubmitter call add_signature
MaxAmount == 2      \* largest recommended_amount of the policy inputs
MaxMinutes == 31    \* last minute the clock of the response monitor reaches
MaxGuardians == 3   \* largest guardian roster of the notification coordinator
MaxSecond == 1      \* last second in which create_execution_plan is called

\* --------------------------------------------------------------- constants
RosterBuffer == 2   \* mock_guardians[:required_signatures + 2]
SecondsPerHour == 3600

MaxUrgency == 100   \* urgency_score: int  # 0-100
LargePaymentThreshold == 1  \* the large-payment threshold of the specification

MonitorUrgency == 80        \* if analysis.urgency_score >= 80
DefaultTimeoutMinutes == 30 \* timeout_minutes: int = 30
PollMinutes == 1            \* await asyncio.sleep(60)

ExecIds == {"exec_1"}
RunIds == 1..MaxRuns
Submitters == 1..MaxSubmitter
NoRef == 0

\* self.mock_guardians: the five addresses, named by their position.
mock_guardians == <<1, 2, 3, 4, 5>>

\* SeverityLevel values of emergency_coordinator.py.
SeverityLevel == {"low", "medium", "high", "critical"}

VARIABLES
    now,            \* datetime.now(), in hours
    executions,     \* ExecutionCoordinator.executions: id -> ExecutionPlan
    collections,    \* SignatureCollector.collections: id -> reference
    store,          \* the SignatureCollection objects, by reference: the
                    \* object made by run r has reference r
    runs,           \* the execute_plan coroutines
    monitors,       \* the _monitor_collection tasks, one per run
    payments,       \* log of _execute_smart_contract_payment invocations
    expirations,    \* per collection object: times its status was set to expired
    cancel_ok,      \* ids for which cancel_execution has returned true
    response        \* EmergencyCoordinator: guardian notification of one
                    \* emergency and its _monitor_guardian_responses task

vars == <<now, executions, collections, store, runs, monitors, payments,
          expirations, cancel_ok, response>>

\* ----------------------------------------------------------- quorum policy
\* severity_level.value is the lower-case enum value; the comparison is
\* against the upper-case literal.
\* Faulty variant: the counts are one too small.
_calculate_required_signatures_OffByOne(severity_level, urgency_score) ==
    LET severity_name == severity_level
    IN  IF severity_name = "CRITICAL" \/ urgency_score >= 90 THEN 0
        ELSE IF severity_name = "HIGH" \/ urgency_score >= 75 THEN 1
        ELSE 2

_calculate_required_signatures(severity_level, urgency_score) ==
    LET severity_name == severity_level
    IN  IF severity_name = "CRITICAL" \/ urgency_score >= 90 THEN 1
        ELSE IF severity_name = "HIGH" \/ urgency_score >= 75 THEN 2
        ELSE 3

\* Faulty variant: the comparisons are strict.
_calculate_timelock_hours_Strict(urgency_score) ==
    IF urgency_score > 90 THEN 1
    ELSE IF urgency_score > 75 THEN 3
    ELSE IF urgency_score > 50 THEN 6
    ELSE 12

_calculate_timelock_hours(urgency_score) ==
    IF urgency_score >= 90 THEN 1
    ELSE IF urgency_score >= 75 THEN 3
    ELSE IF urgency_score >= 50 THEN 6
    ELSE 12

\* Inputs of create_execution_plan: what it reads of emergency_data and of
\* analysis.  steps is the number of operation steps the manual returned,
\* request_data_ok tells whether the emergency data carries the fields
\* _send_signature_request_to_guardian reads, emergency_id_ok whether
\* emergency_id is a string (the payment slices it).
Request(urgency_score, severity_level, steps, institution_address, recommended_amount, request_data_ok, emergency_id_ok) ==
    [urgency_score |-> urgency_score, severity_level |-> severity_level,
     steps |-> steps, institution_address |-> institution_address,
     recommended_amount |-> recommended_amount,
     request_data_ok |-> request_data_ok,
     emergency_id_ok |-> emergency_id_ok]

PlanInputs ==
    { Request(95, "critical", 1, "0xinst", 1, TRUE, TRUE),
      Request(95, "high", 1, "0xinst", 1, FALSE, TRUE),
      Request(80, "high", 1, "0xinst", 1, TRUE, TRUE),
      Request(80, "medium", 1, "0xinst", 1, FALSE, TRUE),
      Request(95, "low", 0, "0xinst", 1, TRUE, TRUE),
      Request(95, "medium", 1, "", 1, TRUE, TRUE),
      Request(95, "critical", 1, "0xinst", 0, TRUE, TRUE),
      Request(95, "critical", 1, "0xinst", 1, TRUE, FALSE) }

\* ------------------------------------------------- SignatureCollection data
\* collected_signatures is a Python list.  The code appends to it, counts it,
\* filters it and searches it, and never reads the order of its entries, so
\* it is kept as a bag of GuardianSignature records.
VerifiedOf(signatures) ==
    LET verified == {sig \in BagToSet(signatures) : sig.verified}
    IN  [sig \in verified |-> signatures[sig]]

collected_count(c) == BagCardinality(VerifiedOf(c.collected_signatures))

is_complete(c) == collected_count(c) >= c.required_signatures

is_expired(c) == now > c.expires_at

GuardianSignature(guardian_address, signature) ==
    [guardian_address |-> guardian_address, signature |-> signature,
     verified |-> TRUE]

SignatureCollection(execution_id, required_signatures, timelock_hours) ==
    [execution_id |-> execution_id,
     required_signatures |-> required_signatures,
     collected_signatures |-> EmptyBag,
     status |-> "pending",
     expires_at |-> now + timelock_hours]

\* ------------------------------------------------------ SignatureCollector
\* The operators take and return the collector's state: the objects (st)
\* and the dictionary (cols).

\* ref is the reference of the object the call creates.
initialize_collection(st, cols, ref, execution_id, required_signatures, timelock_hours) ==
    LET collection == SignatureCollection(execution_id, required_signatures,
                                          timelock_hours)
    IN  [store |-> [st EXCEPT ![ref] = collection],
         collections |-> [e \in DOMAIN cols \cup {execution_id} |->
                            IF e = execution_id THEN ref ELSE cols[e]]]

\* Faulty variant: the signature is appended and the completion is left to
\* the monitor loop.
AppendAndComplete_Deferred(st, ref, sig) ==
    [st EXCEPT ![ref].collected_signatures = @ (+) SetToBag({sig})]

\* Faulty variant: the status is set to completed without looking at the count.
AppendAndComplete_Unchecked(st, ref, sig) ==
    [st EXCEPT ![ref].collected_signatures = @ (+) SetToBag({sig}),
               ![ref].status = "completed"]

\* collection.collected_signatures.append(sig); if collection.is_complete:
\* collection.status = COMPLETED
AppendAndComplete(st, ref, sig) ==
    LET st1 == [st EXCEPT ![ref].collected_signatures = @ (+) SetToBag({sig})]
    IN  IF is_complete(st1[ref])
        THEN [st1 EXCEPT ![ref].status = "completed"]
        ELSE st1

_simulate_guardian_signature(st, ref, guardian_address) ==
    AppendAndComplete(st, ref, GuardianSignature(guardian_address, "mock"))

HasSignatureOf(c, guardian_address) ==
    \E existing_sig \in BagToSet(c.collected_signatures) :
        existing_sig.guardian_address = guardian_address

\* Faulty variant: a guardian's second signature is accepted.
add_signature_NoDuplicateCheck(st, cols, execution_id, guardian_address, is_valid) ==
    IF execution_id \notin DOMAIN cols THEN [store |-> st, ok |-> FALSE]
    ELSE LET ref == cols[execution_id] IN
         IF is_expired(st[ref]) THEN [store |-> st, ok |-> FALSE]
         ELSE IF ~is_valid THEN [store |-> st, ok |-> FALSE]
         ELSE [store |-> AppendAndComplete(st, ref,
                            GuardianSignature(guardian_address, "submitted")),
               ok |-> TRUE]

\* Faulty variant: the expiry of the collection is not looked at.
add_signature_NoExpiryCheck(st, cols, execution_id, guardian_address, is_valid) ==
    IF execution_id \notin DOMAIN cols THEN [store |-> st, ok |-> FALSE]
    ELSE LET ref == cols[execution_id] IN
         IF HasSignatureOf(st[ref], guardian_address)
              THEN [store |-> st, ok |-> FALSE]
         ELSE IF ~is_valid THEN [store |-> st, ok |-> FALSE]
         ELSE [store |-> AppendAndComplete(st, ref,
                            GuardianSignature(guardian_address, "submitted")),
               ok |-> TRUE]

\* The result of add_signature: the objects afterwards and the return value.
\* Faulty variant: a collection that is Completed accepts no signature.
add_signature_ClosedWhenCompleted(st, cols, execution_id, guardian_address, is_valid) ==
    IF execution_id \notin DOMAIN cols THEN [store |-> st, ok |-> FALSE]
    ELSE LET ref == cols[execution_id] IN
         IF is_expired(st[ref]) \/ st[ref].status = "completed"
              THEN [store |-> st, ok |-> FALSE]
         ELSE IF HasSignatureOf(st[ref], guardian_address)
              THEN [store |-> st, ok |-> FALSE]
         ELSE IF ~is_valid THEN [store |-> st, ok |-> FALSE]
         ELSE [store |-> AppendAndComplete(st, ref,
                            GuardianSignature(guardian_address, "submitted")),
               ok |-> TRUE]

\* Faulty variant: the new signature takes the place of the list.
add_signature_Overwrite(st, cols, execution_id, guardian_address, is_valid) ==
    IF execution_id \notin DOMAIN cols THEN [store |-> st, ok |-> FALSE]
    ELSE LET ref == cols[execution_id] IN
         IF is_expired(st[ref]) THEN [store |-> st, ok |-> FALSE]
         ELSE IF HasSignatureOf(st[ref], guardian_address)
              THEN [store |-> st, ok |-> FALSE]
         ELSE IF ~is_valid THEN [store |-> st, ok |-> FALSE]
         ELSE [store |-> AppendAndComplete(
                            [st EXCEPT ![ref].collected_signatures = EmptyBag],
                            ref, GuardianSignature(guardian_address, "submitted")),
               ok |-> TRUE]

add_signature(st, cols, execution_id, guardian_address, is_valid) ==
    IF execution_id \notin DOMAIN cols THEN [store |-> st, ok |-> FALSE]
    ELSE LET ref == cols[execution_id] IN
         IF is_expired(st[ref]) THEN [store |-> st, ok |-> FALSE]
         ELSE IF HasSignatureOf(st[ref], guardian_address)
              THEN [store |-> st, ok |-> FALSE]
         ELSE IF ~is_valid THEN [store |-> st, ok |-> FALSE]
         ELSE [store |-> AppendAndComplete(st, ref,
                            GuardianSignature(guardian_address, "submitted")),
               ok |-> TRUE]

get_collected_signatures(st, cols, execution_id) ==
    IF execution_id \notin DOMAIN cols THEN EmptyBag
    ELSE VerifiedOf(st[cols[execution_id]].collected_signatures)

cancel_collection(st, cols, execution_id) ==
    IF execution_id \notin DOMAIN cols THEN st
    ELSE [st EXCEPT ![cols[execution_id]].status = "cancelled"]

cleanup_collection(cols, execution_id) ==
    [e \in DOMAIN cols \ {execution_id} |-> cols[e]]

\* An object nothing refers to any more is freed: neither the dictionary,
\* nor the fan-out of a run, nor a monitor task holds it.
NoCollection == [execution_id |-> "none", required_signatures |-> 0,
                 collected_signatures |-> EmptyBag, status |-> "none",
                 expires_at |-> 0]

Referenced(ref, cols, rs, ms) ==
    \/ \E e \in DOMAIN cols : cols[e] = ref
    \/ \E q \in RunIds : rs[q].coll = ref
    \/ \E q \in RunIds : ms[q].coll = ref

Collect(st, cols, rs, ms) ==
    [ref \in RunIds |-> IF Referenced(ref, cols, rs, ms) THEN st[ref]
                        ELSE NoCollection]

\* ---------------------------------------------------------------- records
IdleRun == [pc |-> "idle", execution_id |-> "none", coll |-> NoRef,
            guardians |-> 0, idx |-> 0, start_time |-> 0, result |-> "none"]

Returned(execution_id, result) ==
    [pc |-> "done", execution_id |-> execution_id, coll |-> NoRef,
     guardians |-> 0, idx |-> 0, start_time |-> 0, result |-> result]

Suspended(pc, execution_id, start_time) ==
    [pc |-> pc, execution_id |-> execution_id, coll |-> NoRef,
     guardians |-> 0, idx |-> 0, start_time |-> start_time, result |-> "none"]

NoMonitor == [pc |-> "none", coll |-> NoRef]

\* The emergency coordinator before any guardian notification: clock is
\* datetime.now() in minutes, total and responded count the entries of
\* guardian_status and those that are acknowledged or responded, pc is the
\* position of the _monitor_guardian_responses task; started, in_time,
\* stopped_by and escalations record what has happened.
NoResponse ==
    [clock |-> 0, notified |-> FALSE, urgency_score |-> 0, total |-> 0,
     responded |-> 0, pc |-> "none", timeout_time |-> 0, wake_at |-> 0,
     started |-> FALSE, in_time |-> FALSE, stopped_by |-> "none",
     escalations |-> 0]

Init ==
    /\ now = 0
    /\ executions = << >>
    /\ collections = << >>
    /\ store = [r \in RunIds |-> NoCollection]
    /\ runs = [r \in RunIds |-> IdleRun]
    /\ monitors = [r \in RunIds |-> NoMonitor]
    /\ payments = << >>
    /\ expirations = [r \in RunIds |-> 0]
    /\ cancel_ok = {}
    /\ response = NoResponse

\* ------------------------------------------------------------------ clock
Tick ==
    /\ now < MaxTime
    /\ now' = now + 1
    /\ UNCHANGED <<response, executions, collections, store, runs, monitors, payments,
                   expirations, cancel_ok>>

\* The clock under the timing the sleeps are written for: the sleeps of a
\* signature fan-out add up to seconds and a time-lock is an hour at least,
\* so a fan-out is over before the collection it fills expires; and a task
\* that is ready to run (a monitor just created) runs before the hour ends.
TimelyTick ==
    /\ \A r \in RunIds :
          /\ runs[r].pc = "fanout" => now < store[runs[r].coll].expires_at
          /\ monitors[r].pc # "scheduled"
    /\ Tick

\* --------------------------------------------------- create_execution_plan
\* Faulty variant: a large amount raises the required count by one, up to 5.
ExecutionPlan_LargeAmount(execution_id, inp) ==
    LET base == _calculate_required_signatures(inp.severity_level,
                                               inp.urgency_score)
        raised == IF base + 1 < 5 THEN base + 1 ELSE 5
    IN  [execution_id |-> execution_id,
         severity_level |-> inp.severity_level,
         urgency_score |-> inp.urgency_score,
         steps |-> inp.steps,
         required_signatures |->
             IF inp.recommended_amount > LargePaymentThreshold
             THEN raised ELSE base,
         timelock_hours |-> _calculate_timelock_hours(inp.urgency_score),
         recipient_address |-> inp.institution_address,
         amount |-> inp.recommended_amount,
         request_data_ok |-> inp.request_data_ok,
         emergency_id_ok |-> inp.emergency_id_ok,
         status |-> "pending",
         current_phase |-> "preparation"]

ExecutionPlan(execution_id, inp) ==
    [execution_id |-> execution_id,
     severity_level |-> inp.severity_level,
     urgency_score |-> inp.urgency_score,
     steps |-> inp.steps,
     required_signatures |->
         _calculate_required_signatures(inp.severity_level, inp.urgency_score),
     timelock_hours |-> _calculate_timelock_hours(inp.urgency_score),
     recipient_address |-> inp.institution_address,
     amount |-> inp.recommended_amount,
     request_data_ok |-> inp.request_data_ok,
     emergency_id_ok |-> inp.emergency_id_ok,
     status |-> "pending",
     current_phase |-> "preparation"]

\* The execution id of a plan: f"exec_{emergency_id}_{int(timestamp)}", the
\* timestamp in whole seconds.
ExecutionId(emergency_id, timestamp) == <<"exec", emergency_id, timestamp>>

\* The ids of the calls of create_execution_plan that no earlier call shares
\* its emergency and its second with.
FreshIds == ExecIds \ DOMAIN executions

\* create_execution_plan with the id it has computed: the plan is stored
\* under the id, whatever the registry holds there.
CreateExecutionPlan(eid, inp) ==
    /\ executions' = [e \in DOMAIN executions \cup {eid} |->
                        IF e = eid THEN ExecutionPlan(eid, inp)
                        ELSE executions[e]]
    /\ UNCHANGED <<response, now, collections, store, runs, monitors, payments,
                   expirations, cancel_ok>>

\* ----------------------------------------------------------- execute_plan
\* Faulty variant: the payment is invoked without counting the signatures.
ContractPhase_NoCount(r, eid, ex, st, cols) ==
    /\ payments' = Append(payments,
            [execution_id |-> eid, run |-> r,
             held |-> IF eid \in DOMAIN cols
                      THEN collected_count(st[cols[eid]]) ELSE 0,
             required |-> ex[eid].required_signatures])
    /\ runs' = [runs EXCEPT ![r] = Suspended("paying", eid, 0)]

\* Faulty variant: the contract phase goes on without invoking the payment.
ContractPhase_NoPayment(r, eid, ex, st, cols) ==
    /\ UNCHANGED payments
    /\ runs' = [runs EXCEPT ![r] = Suspended("paying", eid, 0)]

\* _execute_contract_phase up to the sleep inside the payment: the verified
\* signatures of the collection are read, counted and handed to the payment
\* without a suspension in between.
ContractPhase(r, eid, ex, st, cols) ==
    LET plan == ex[eid]
        signatures == get_collected_signatures(st, cols, eid)
    IN  IF BagCardinality(signatures) < plan.required_signatures
        THEN /\ runs' = [runs EXCEPT ![r] = Returned(eid, "contract_execution")]
             /\ UNCHANGED payments
        ELSE /\ payments' = Append(payments,
                    [execution_id |-> eid, run |-> r,
                     held |-> IF eid \in DOMAIN cols
                              THEN collected_count(st[cols[eid]]) ELSE 0,
                     required |-> plan.required_signatures])
             /\ runs' = [runs EXCEPT ![r] = Suspended("paying", eid, 0)]

\* Faulty variant: the status is compared with the upper-case name, so the
\* completion of the collection is never seen.
SignatureWait_UpperCase(r, eid, ex, st, cols, start_time) ==
    LET status_value == IF eid \in DOMAIN cols THEN st[cols[eid]].status
                        ELSE "completed"
        max_wait_time == ex[eid].timelock_hours * SecondsPerHour
        elapsed_time == (now - start_time) * SecondsPerHour
    IN  IF status_value = "COMPLETED"
        THEN /\ executions' = [ex EXCEPT ![eid].status = "executing",
                                  ![eid].current_phase = "contract_execution"]
             /\ ContractPhase(r, eid, ex, st, cols)
        ELSE IF status_value = "FAILED" \/ elapsed_time >= max_wait_time
        THEN /\ executions' = ex
             /\ runs' = [runs EXCEPT ![r] = Returned(eid, "signature_collection")]
             /\ UNCHANGED payments
        ELSE /\ executions' = ex
             /\ runs' = [runs EXCEPT ![r] = Suspended("waiting", eid, start_time)]
             /\ UNCHANGED payments

\* Faulty variant: the polling loop has no time limit.
SignatureWait_NoTimeout(r, eid, ex, st, cols, start_time) ==
    LET status_value == IF eid \in DOMAIN cols THEN st[cols[eid]].status
                        ELSE "completed"
    IN  IF status_value = "completed"
        THEN /\ executions' = [ex EXCEPT ![eid].status = "executing",
                                  ![eid].current_phase = "contract_execution"]
             /\ ContractPhase(r, eid, ex, st, cols)
        ELSE IF status_value = "failed"
        THEN /\ executions' = ex
             /\ runs' = [runs EXCEPT ![r] = Returned(eid, "signature_collection")]
             /\ UNCHANGED payments
        ELSE /\ executions' = ex
             /\ runs' = [runs EXCEPT ![r] = Suspended("waiting", eid, start_time)]
             /\ UNCHANGED payments

\* One pass of the polling loop of _execute_signature_collection_phase and,
\* when the loop ends, the rest of execute_plan up to the next sleep.
SignatureWait(r, eid, ex, st, cols, start_time) ==
    LET status_value == IF eid \in DOMAIN cols THEN st[cols[eid]].status
                        ELSE "completed"
        max_wait_time == ex[eid].timelock_hours * SecondsPerHour
        elapsed_time == (now - start_time) * SecondsPerHour
    IN  IF status_value = "completed"
        THEN /\ executions' = [ex EXCEPT ![eid].status = "executing",
                                  ![eid].current_phase = "contract_execution"]
             /\ ContractPhase(r, eid, ex, st, cols)
        ELSE IF status_value = "failed" \/ elapsed_time >= max_wait_time
        THEN /\ executions' = ex
             /\ runs' = [runs EXCEPT ![r] = Returned(eid, "signature_collection")]
             /\ UNCHANGED payments
        ELSE /\ executions' = ex
             /\ runs' = [runs EXCEPT ![r] = Suspended("waiting", eid, start_time)]
             /\ UNCHANGED payments

\* The number of guardians _send_signature_requests sends a request to:
\* len(self.mock_guardians[:required_signatures + 2]).
RosterSize(required_signatures) ==
    IF required_signatures + RosterBuffer < Len(mock_guardians)
    THEN required_signatures + RosterBuffer
    ELSE Len(mock_guardians)

\* Faulty variant: the amount of the plan is not looked at.
_execute_preparation_phase_NoAmountCheck(plan) ==
    /\ plan.steps # 0
    /\ plan.recipient_address # ""

\* The checks of _execute_preparation_phase: TRUE when the plan passes them
\* and the phase goes on to initialize the signature collection.
_execute_preparation_phase(plan) ==
    /\ plan.steps # 0
    /\ plan.recipient_address # ""
    /\ plan.amount > 0

\* execute_plan from the call to its first sleep or return.
ExecutePlan(r, eid) ==
    /\ runs[r].pc = "idle"
    /\ \A q \in RunIds : q < r => runs[q].pc # "idle"
    /\ IF eid \notin DOMAIN executions
       THEN /\ runs' = [runs EXCEPT ![r] = Returned(eid, "not_found")]
            /\ UNCHANGED <<executions, collections, store, monitors, payments>>
       ELSE LET plan == executions[eid]
                ex1 == [executions EXCEPT ![eid].status = "in_progress",
                                          ![eid].current_phase = "preparation"]
                prepared == _execute_preparation_phase(plan)
            IN  IF ~prepared
                THEN /\ executions' = ex1
                     /\ runs' = [runs EXCEPT ![r] = Returned(eid, "preparation")]
                     /\ UNCHANGED <<collections, store, monitors, payments>>
                ELSE LET cs == initialize_collection(store, collections, r, eid,
                                   plan.required_signatures, plan.timelock_hours)
                         ref == cs.collections[eid]
                         ex2 == [ex1 EXCEPT ![eid].current_phase = "signature_collection",
                                            ![eid].status = "waiting_signatures"]
                         st2 == [cs.store EXCEPT ![ref].status = "in_progress"]
                         guardians == RosterSize(plan.required_signatures)
                     IN  /\ collections' = cs.collections
                         /\ IF plan.request_data_ok
                            THEN /\ executions' = ex2
                                 /\ runs' = [runs EXCEPT ![r] =
                                        [pc |-> "fanout", execution_id |-> eid,
                                         coll |-> ref, guardians |-> guardians,
                                         idx |-> 1, start_time |-> 0,
                                         result |-> "none"]]
                                 /\ UNCHANGED <<monitors, payments>>
                            ELSE /\ monitors' = [monitors EXCEPT ![r] =
                                        [pc |-> "scheduled", coll |-> NoRef]]
                                 /\ SignatureWait(r, eid, ex2, st2, cs.collections, now)
                         /\ store' = Collect(st2, collections', runs', monitors')
    /\ UNCHANGED <<response, now, expirations, cancel_ok>>

\* A wake-up inside _send_signature_requests: the mock signature of the
\* guardian in turn is appended; after the last guardian start_collection
\* creates the monitor task and returns, and the polling loop begins.
FanoutStep(r) ==
    /\ runs[r].pc = "fanout"
    /\ LET eid == runs[r].execution_id
           ref == runs[r].coll
           st1 == _simulate_guardian_signature(store, ref,
                                               mock_guardians[runs[r].idx])
       IN  /\ UNCHANGED collections
           /\ IF runs[r].idx < runs[r].guardians
              THEN /\ runs' = [runs EXCEPT ![r].idx = @ + 1]
                   /\ UNCHANGED <<executions, monitors, payments>>
              ELSE /\ monitors' = [monitors EXCEPT ![r] =
                          [pc |-> "scheduled", coll |-> NoRef]]
                   /\ SignatureWait(r, eid, executions, st1, collections, now)
           /\ store' = Collect(st1, collections', runs', monitors')
    /\ UNCHANGED <<response, now, expirations, cancel_ok>>

\* A wake-up from the 30 second sleep of the polling loop.  The monitor task
\* was made ready (asyncio.create_task) before this run went to sleep, so it
\* has taken its first step before the sleep is over.
PollStep(r) ==
    /\ runs[r].pc = "waiting"
    /\ monitors[r].pc # "scheduled"
    /\ SignatureWait(r, runs[r].execution_id, executions, store, collections,
                     runs[r].start_time)
    /\ UNCHANGED <<response, now, collections, store, monitors, expirations, cancel_ok>>

\* Faulty variant: after the payment the run goes straight to the completion
\* phase.
PaymentReturns_SkipVerification(r) ==
    /\ runs[r].pc = "paying"
    /\ monitors[r].pc # "scheduled"
    /\ LET eid == runs[r].execution_id
       IN  /\ executions' = [executions EXCEPT ![eid].current_phase = "completion",
                                               ![eid].status = "completed"]
           /\ runs' = [runs EXCEPT ![r] = Returned(eid, "success")]
    /\ UNCHANGED <<response, now, collections, store, monitors, payments,
                   expirations, cancel_ok>>

\* The payment wakes up from its sleep.  It builds the transaction hash from
\* emergency_id[:32]: with a string it returns the hash and the verification
\* phase starts; otherwise the slice raises, _execute_contract_phase catches
\* the exception and execute_plan returns the failed step.
PaymentReturns(r) ==
    /\ runs[r].pc = "paying"
    /\ monitors[r].pc # "scheduled"
    /\ LET eid == runs[r].execution_id
       IN  IF executions[eid].emergency_id_ok
           THEN /\ executions' = [executions EXCEPT
                                     ![eid].current_phase = "verification"]
                /\ runs' = [runs EXCEPT ![r] =
                               Suspended("verify_transaction", eid, 0)]
           ELSE /\ runs' = [runs EXCEPT ![r] =
                               Returned(eid, "contract_execution")]
                /\ UNCHANGED executions
    /\ UNCHANGED <<response, now, collections, store, monitors, payments, expirations,
                   cancel_ok>>

\* _verify_transaction_status returns True.
TransactionVerified(r) ==
    /\ runs[r].pc = "verify_transaction"
    /\ runs' = [runs EXCEPT ![r] = Suspended("verify_funds", runs[r].execution_id, 0)]
    /\ UNCHANGED <<response, now, executions, collections, store, monitors, payments,
                   expirations, cancel_ok>>

\* Faulty variant: the completion phase leaves the collection in place.
FundsVerified_NoCleanup(r) ==
    /\ runs[r].pc = "verify_funds"
    /\ LET eid == runs[r].execution_id
       IN  /\ executions' = [executions EXCEPT ![eid].current_phase = "completion",
                                               ![eid].status = "completed"]
           /\ runs' = [runs EXCEPT ![r] = Returned(eid, "success")]
    /\ UNCHANGED <<response, now, collections, monitors, payments, expirations,
                   cancel_ok>>
    /\ store' = Collect(store, collections', runs', monitors')

\* _verify_funds_received returns True; the completion phase runs to the end.
FundsVerified(r) ==
    /\ runs[r].pc = "verify_funds"
    /\ LET eid == runs[r].execution_id
       IN  /\ executions' = [executions EXCEPT ![eid].current_phase = "completion",
                                               ![eid].status = "completed"]
           /\ collections' = cleanup_collection(collections, eid)
           /\ runs' = [runs EXCEPT ![r] = Returned(eid, "success")]
    /\ UNCHANGED <<response, now, monitors, payments, expirations, cancel_ok>>
    /\ store' = Collect(store, collections', runs', monitors')

\* ------------------------------------------------------ get_execution_status
\* The fields of the report the claims read; found is FALSE where the code
\* returns None.
get_execution_status(ex, st, cols, execution_id) ==
    IF execution_id \notin DOMAIN ex
    THEN [found |-> FALSE, status |-> "none", current_phase |-> "none",
          required_signatures |-> 0, collected_signatures |-> 0]
    ELSE [found |-> TRUE,
          status |-> ex[execution_id].status,
          current_phase |-> ex[execution_id].current_phase,
          required_signatures |-> ex[execution_id].required_signatures,
          collected_signatures |->
              IF execution_id \in DOMAIN cols
              THEN collected_count(st[cols[execution_id]]) ELSE 0]

\* --------------------------------------------------------- cancel_execution
\* Faulty variant: a plan in the middle of its settlement is cancelled too.
cancel_execution_ExecutingAllowed(ex, st, cols, execution_id) ==
    IF execution_id \notin DOMAIN ex
    THEN [executions |-> ex, store |-> st, ok |-> FALSE]
    ELSE IF ex[execution_id].status = "completed"
    THEN [executions |-> ex, store |-> st, ok |-> FALSE]
    ELSE [executions |-> [ex EXCEPT ![execution_id].status = "cancelled"],
          store |-> cancel_collection(st, cols, execution_id),
          ok |-> TRUE]

\* Faulty variant: an id the registry does not hold is cancelled all the same.
cancel_execution_UnknownAllowed(ex, st, cols, execution_id) ==
    IF execution_id \notin DOMAIN ex
    THEN [executions |-> ex,
          store |-> cancel_collection(st, cols, execution_id),
          ok |-> TRUE]
    ELSE IF ex[execution_id].status \in {"completed", "executing"}
    THEN [executions |-> ex, store |-> st, ok |-> FALSE]
    ELSE [executions |-> [ex EXCEPT ![execution_id].status = "cancelled"],
          store |-> cancel_collection(st, cols, execution_id),
          ok |-> TRUE]

cancel_execution(ex, st, cols, execution_id) ==
    IF execution_id \notin DOMAIN ex
    THEN [executions |-> ex, store |-> st, ok |-> FALSE]
    ELSE IF ex[execution_id].status \in {"completed", "executing"}
    THEN [executions |-> ex, store |-> st, ok |-> FALSE]
    ELSE [executions |-> [ex EXCEPT ![execution_id].status = "cancelled"],
          store |-> cancel_collection(st, cols, execution_id),
          ok |-> TRUE]

CancelExecution(eid) ==
    LET res == cancel_execution(executions, store, collections, eid)
    IN  /\ executions' = res.executions
        /\ store' = res.store
        /\ cancel_ok' = IF res.ok THEN cancel_ok \cup {eid} ELSE cancel_ok
        /\ UNCHANGED <<response, now, collections, runs, monitors, payments, expirations>>

\* ------------------------------------------------------------ add_signature
AddSignature(eid, guardian_address, is_valid) ==
    LET res == add_signature(store, collections, eid, guardian_address, is_valid)
    IN  /\ store' = res.store
        /\ UNCHANGED <<response, now, executions, collections, runs, monitors, payments,
                       expirations, cancel_ok>>

\* ------------------------------------------------------ _monitor_collection
\* Faulty variant: the loop does not look at the expiry.
MonitorLoop_NoExpiry(r, ref) ==
    LET collection == store[ref]
        finished == [monitors EXCEPT ![r] = [pc |-> "done", coll |-> NoRef]]
    IN  IF collection.status # "in_progress"
        THEN /\ monitors' = finished
             /\ store' = Collect(store, collections, runs, finished)
             /\ UNCHANGED expirations
        ELSE IF is_complete(collection)
        THEN /\ monitors' = finished
             /\ store' = Collect([store EXCEPT ![ref].status = "completed"],
                                 collections, runs, finished)
             /\ UNCHANGED expirations
        ELSE /\ monitors' = [monitors EXCEPT ![r] = [pc |-> "watching", coll |-> ref]]
             /\ UNCHANGED <<store, expirations>>

\* The loop of _monitor_collection from its head to the sleep or the exit.
MonitorLoop(r, ref) ==
    LET collection == store[ref]
        finished == [monitors EXCEPT ![r] = [pc |-> "done", coll |-> NoRef]]
    IN  IF collection.status # "in_progress"
        THEN /\ monitors' = finished
             /\ store' = Collect(store, collections, runs, finished)
             /\ UNCHANGED expirations
        ELSE IF is_expired(collection)
        THEN /\ monitors' = finished
             /\ store' = Collect([store EXCEPT ![ref].status = "expired"],
                                 collections, runs, finished)
             /\ expirations' = [expirations EXCEPT ![ref] = @ + 1]
        ELSE IF is_complete(collection)
        THEN /\ monitors' = finished
             /\ store' = Collect([store EXCEPT ![ref].status = "completed"],
                                 collections, runs, finished)
             /\ UNCHANGED expirations
        ELSE /\ monitors' = [monitors EXCEPT ![r] = [pc |-> "watching", coll |-> ref]]
             /\ UNCHANGED <<store, expirations>>

\* The first step of the task created by start_collection: it looks the
\* collection up in the dictionary (a KeyError ends the task).
MonitorStart(r) ==
    /\ monitors[r].pc = "scheduled"
    /\ LET eid == runs[r].execution_id
       IN  IF eid \notin DOMAIN collections
           THEN /\ monitors' = [monitors EXCEPT ![r] = [pc |-> "done", coll |-> NoRef]]
                /\ UNCHANGED <<store, expirations>>
           ELSE MonitorLoop(r, collections[eid])
    /\ UNCHANGED <<response, now, executions, collections, runs, payments, cancel_ok>>

\* A wake-up from the 5 second sleep of the monitor.
MonitorStep(r) ==
    /\ monitors[r].pc = "watching"
    /\ MonitorLoop(r, monitors[r].coll)
    /\ UNCHANGED <<response, now, executions, collections, runs, payments, cancel_ok>>

\* ------------------------------------------------------------------- Next
Step ==
    \/ \E eid \in FreshIds, inp \in PlanInputs : CreateExecutionPlan(eid, inp)
    \/ \E r \in RunIds, eid \in ExecIds : ExecutePlan(r, eid)
    \/ \E r \in RunIds : FanoutStep(r)
    \/ \E r \in RunIds : PollStep(r)
    \/ \E r \in RunIds : PaymentReturns(r)
    \/ \E r \in RunIds : TransactionVerified(r)
    \/ \E r \in RunIds : FundsVerified(r)
    \/ \E eid \in ExecIds : CancelExecution(eid)
    \/ \E eid \in ExecIds, g \in Submitters, v \in BOOLEAN : AddSignature(eid, g, v)
    \/ \E r \in RunIds : MonitorStart(r)
    \/ \E r \in RunIds : MonitorStep(r)

Next == Tick \/ Step

Spec == Init /\ [][Next]_vars

TimelyNext == TimelyTick \/ Step

\* Scheduling of the event loop: a task whose sleep is over is run, and the
\* clock advances.  Calls from outside (create_execution_plan, execute_plan,
\* cancel_execution, add_signature) are under no obligation to happen.
Fairness ==
    /\ WF_vars(TimelyTick)
    /\ \A r \in RunIds :
        /\ WF_vars(FanoutStep(r))
        /\ WF_vars(PollStep(r))
        /\ WF_vars(PaymentReturns(r))
        /\ WF_vars(TransactionVerified(r))
        /\ WF_vars(FundsVerified(r))
        /\ WF_vars(MonitorStart(r))
        /\ WF_vars(MonitorStep(r))

FairSpec == Init /\ [][TimelyNext]_vars /\ Fairness

\* --------------------------------------------------------- a single execution
\* One plan executed once and not cancelled: execute_plan is called a single
\* time, guardians submit signatures, the event loop and the clock run.
FirstRun == 1

ScenarioStep ==
    \/ \E eid \in FreshIds, inp \in PlanInputs : CreateExecutionPlan(eid, inp)
    \/ \E eid \in ExecIds : ExecutePlan(FirstRun, eid)
    \/ FanoutStep(FirstRun)
    \/ PollStep(FirstRun)
    \/ PaymentReturns(FirstRun)
    \/ TransactionVerified(FirstRun)
    \/ FundsVerified(FirstRun)
    \/ \E eid \in ExecIds, g \in Submitters, v \in BOOLEAN : AddSignature(eid, g, v)
    \/ MonitorStart(FirstRun)
    \/ MonitorStep(FirstRun)

ScenarioNext == TimelyTick \/ ScenarioStep

ScenarioSpec == Init /\ [][ScenarioNext]_vars /\ Fairness

\* ------------------------------------------- a single execution, cancellable
\* One plan executed once, which cancel_execution may be called on at any
\* time.
CancellableNext ==
    \/ TimelyTick
    \/ ScenarioStep
    \/ \E eid \in ExecIds : CancelExecution(eid)

CancellableSpec == Init /\ [][CancellableNext]_vars /\ Fairness

\* ------------------------------------------------------------ the registry
\* create_execution_plan called for two emergencies, at any second of
\* 0..MaxSecond and any number of times within a second.
EmergencyIds == {"em_1", "em_2"}

RegistryCreate ==
    \E emergency_id \in EmergencyIds, timestamp \in 0..MaxSecond, inp \in PlanInputs : CreateExecutionPlan(ExecutionId(emergency_id, timestamp), inp)

RegistrySpec == Init /\ [][RegistryCreate]_vars

\* ------------------------------------------------- concurrent submissions
\* One collection, initialized and started by an execute_plan that sends no
\* mock requests, on which every guardian may call add_signature at any time
\* and in any order, with a signature that verifies or one that does not.
\* The calls share the event loop: add_signature has no sleep, so each call
\* is one step.
AllGuardians == 1..Len(mock_guardians)

SubmissionNext ==
    \/ Tick
    \/ \E eid \in FreshIds, inp \in {i \in PlanInputs : ~i.request_data_ok} : CreateExecutionPlan(eid, inp)
    \/ \E eid \in ExecIds : ExecutePlan(FirstRun, eid)
    \/ \E eid \in ExecIds, g \in AllGuardians, v \in BOOLEAN : AddSignature(eid, g, v)
    \/ MonitorStart(FirstRun)
    \/ MonitorStep(FirstRun)

SubmissionSpec == Init /\ [][SubmissionNext]_vars

\* ------------------------------------------- guardian response monitoring
\* The variables of the execution coordinator and the signature collector.
execution_vars == <<now, executions, collections, store, runs, monitors, payments, expirations, cancel_ok>>

\* if responded_count >= total_count * 0.7
SufficientResponses(rs) == rs.responded * 10 >= rs.total * 7

\* Record keeping: the responded-or-acknowledged fraction of the roster has
\* reached 0.7 while the monitor was started and its deadline not yet over.
Observe(rs) ==
    [rs EXCEPT !.in_time = @ \/ (/\ rs.started
                                 /\ rs.timeout_time > 0
                                 /\ rs.clock < rs.timeout_time
                                 /\ SufficientResponses(rs))]

\* The urgency scores and the notification outcomes of the emergencies.
UrgencyInputs == {0, MonitorUrgency - 1, MonitorUrgency, MaxUrgency}

\* _notify_guardians_of_emergency: the notification data are built and
\* send_emergency_notification is awaited; when either raises, the except
\* clause logs the error and the function returns; otherwise the monitor
\* task is created when the urgency score is at least 80.
NotifyGuardians(urgency_score, total, raises) ==
    /\ ~response.notified
    /\ LET start == ~raises /\ urgency_score >= MonitorUrgency
       IN  response' = [response EXCEPT
                           !.notified = TRUE,
                           !.urgency_score = urgency_score,
                           !.total = total,
                           !.pc = IF start THEN "created" ELSE "none",
                           !.started = start]
    /\ UNCHANGED execution_vars

\* update_guardian_status: one more guardian of the roster has acknowledged
\* or responded.
GuardianResponds ==
    /\ response.notified
    /\ response.responded < response.total
    /\ response' = Observe([response EXCEPT !.responded = @ + 1])
    /\ UNCHANGED execution_vars

\* A minute passes.  The event loop runs a task that is ready and wakes a
\* sleeper when its sleep is over, within the minute.
ResponseTick ==
    /\ response.clock < MaxMinutes
    /\ response.pc # "created"
    /\ response.pc = "sleeping" => response.clock < response.wake_at
    /\ response' = Observe([response EXCEPT !.clock = @ + 1])
    /\ UNCHANGED execution_vars

\* _handle_response_timeout: the escalation hook.
_handle_response_timeout(rs) == [rs EXCEPT !.escalations = @ + 1]

\* Faulty variant: the loop does not look at the deadline.
ResponseLoop_NoDeadline(rs, later) ==
    IF SufficientResponses(rs)
    THEN LET broke == [rs EXCEPT !.pc = "done", !.stopped_by = "fraction",
                                 !.clock = IF later THEN @ + 1 ELSE @]
         IN  IF broke.clock >= broke.timeout_time
             THEN _handle_response_timeout(broke)
             ELSE broke
    ELSE [rs EXCEPT !.pc = "sleeping",
                    !.wake_at = IF rs.clock < MaxMinutes
                                THEN rs.clock + PollMinutes ELSE rs.clock]

\* The loop of _monitor_guardian_responses from its head to the sleep or to
\* the end of the function.  When the loop condition fails the test after
\* the loop succeeds (the clock does not go back).  After a break the clock
\* is read a second time: later is TRUE when the minute has changed between
\* the two readings.
ResponseLoop(rs, later) ==
    IF ~(rs.clock < rs.timeout_time)
    THEN [_handle_response_timeout(rs) EXCEPT
              !.pc = "done",
              !.stopped_by = "timeout"]
    ELSE IF SufficientResponses(rs)
    THEN LET broke == [rs EXCEPT !.pc = "done", !.stopped_by = "fraction",
                                 !.clock = IF later THEN @ + 1 ELSE @]
         IN  IF broke.clock >= broke.timeout_time
             THEN _handle_response_timeout(broke)
             ELSE broke
    ELSE [rs EXCEPT !.pc = "sleeping", !.wake_at = rs.clock + PollMinutes]

\* The first step of the monitor task: the deadline is computed and the
\* loop is entered.
ResponseMonitorStart(later) ==
    /\ response.pc = "created"
    /\ later => response.clock < MaxMinutes
    /\ response' = Observe(ResponseLoop(
           [response EXCEPT !.timeout_time =
                                response.clock + DefaultTimeoutMinutes],
           later))
    /\ UNCHANGED execution_vars

\* A wake-up from the 60 second sleep of the loop.
ResponseMonitorWake(later) ==
    /\ response.pc = "sleeping"
    /\ response.clock >= response.wake_at
    /\ later => response.clock < MaxMinutes
    /\ response' = Observe(ResponseLoop(response, later))
    /\ UNCHANGED execution_vars

ResponseNext ==
    \/ \E urgency_score \in UrgencyInputs, total \in 0..MaxGuardians, raises \in BOOLEAN : NotifyGuardians(urgency_score, total, raises)
    \/ GuardianResponds
    \/ ResponseTick
    \/ \E later \in BOOLEAN : ResponseMonitorStart(later)
    \/ \E later \in BOOLEAN : ResponseMonitorWake(later)

ResponseSpec == Init /\ [][ResponseNext]_vars

\* Scheduling of the event loop: the clock advances, and the monitor task
\* runs when it is created and when its sleep is over.  The notification and
\* the guardians' responses are under no obligation to happen.
ResponseFairness ==
    /\ WF_vars(ResponseTick)
    /\ WF_vars(\E later \in BOOLEAN : ResponseMonitorStart(later))
    /\ WF_vars(\E later \in BOOLEAN : ResponseMonitorWake(later))

FairResponseSpec == Init /\ [][ResponseNext]_vars /\ ResponseFairness

\* ------------------------------------------------------------ quorum policy
\* The policy functions over their whole input range: every severity, every
\* urgency score and the amounts 1..MaxAmount, each turned into a plan by
\* create_execution_plan.
PolicyInputs ==
    { Request(urgency_score, severity_level, 1, "0xinst", amount, TRUE, TRUE) :
        urgency_score \in 0..MaxUrgency, severity_level \in SeverityLevel,
        amount \in 1..MaxAmount }

PolicyCreate ==
    \E eid \in FreshIds, inp \in PolicyInputs : CreateExecutionPlan(eid, inp)

PolicySpec == Init /\ [][PolicyCreate]_vars

\* --------------------------------------------------------------- auxiliary
PaymentsOf(eid) == {i \in 1..Len(payments) : payments[i].execution_id = eid}

Live == {ref \in RunIds : store[ref].status # "none"}

SubmittedCount(c) ==
    BagCardinality([sig \in {x \in BagToSet(c.collected_signatures) :
                                x.signature = "submitted"} |->
                        c.collected_signatures[sig]])

MockCount(c) ==
    BagCardinality([sig \in {x \in BagToSet(c.collected_signatures) :
                                x.signature = "mock"} |->
                        c.collected_signatures[sig]])

EntriesOf(c, guardian_address) ==
    BagCardinality([sig \in {x \in BagToSet(c.collected_signatures) :
                                x.guardian_address = guardian_address} |->
                        c.collected_signatures[sig]])

TerminalPlanStatus == {"completed", "failed", "cancelled"}
TerminalCollectionStatus == {"completed", "expired", "cancelled"}

\* ------------------------------------------------------------------ claims

\* C1: every invocation of the settlement payment happened while the
\* signature collection of that execution held at least required_signatures
\* verified signatures.
C1_PaymentOnlyWithQuorum ==
    \A i \in 1..Len(payments) : payments[i].held >= payments[i].required

\* C1 witness: a payment was invoked for a plan that needs two signatures,
\* in a run that interleaved with a cancellation.
C1_Witness ==
    \E i \in 1..Len(payments) :
        /\ payments[i].required = 2
        /\ payments[i].execution_id \in cancel_ok

\* C2: the settlement payment is invoked at most once per execution id.
C2_PaymentAtMostOnce ==
    \A eid \in ExecIds : Cardinality(PaymentsOf(eid)) <= 1

\* C3: once cancel_execution has returned true for a plan, no settlement
\* payment is invoked for that plan.
C3_NoPaymentAfterCancel ==
    [][\A eid \in cancel_ok : PaymentsOf(eid)' = PaymentsOf(eid)]_vars

\* C4: a plan whose status is Completed, Failed or Cancelled keeps that
\* status in every later step.
C4_TerminalStatusKept ==
    [][\A eid \in DOMAIN executions :
          executions[eid].status \in TerminalPlanStatus
              => executions'[eid].status = executions[eid].status]_vars

\* C5: a signature collection whose status is Completed holds at least
\* required_signatures verified signatures.
C5_CompletedHasQuorum ==
    \A ref \in Live :
        store[ref].status = "completed"
            => collected_count(store[ref]) >= store[ref].required_signatures

\* C5 witness: a collection that needs two signatures is Completed.
C5_Witness ==
    \E ref \in Live :
        /\ store[ref].status = "completed"
        /\ store[ref].required_signatures = 2

\* C6: a signature collection holds at most one entry per guardian address.
C6_OneEntryPerGuardian ==
    \A ref \in Live :
        \A g \in 1..Len(mock_guardians) : EntriesOf(store[ref], g) <= 1

Registered(ref) == \E eid \in DOMAIN collections : collections[eid] = ref

Watched(ref) ==
    \E r \in RunIds : monitors[r].pc = "watching" /\ monitors[r].coll = ref

\* C8 as stated: a collection that exists and is below quorum after its
\* expiry time eventually has its status set to Expired.
C8_EventuallyExpired ==
    \A ref \in RunIds :
        (ref \in Live /\ Registered(ref) /\ is_expired(store[ref])
            /\ ~is_complete(store[ref]))
        ~> (expirations[ref] > 0)

\* C8 amended: a collection that its monitoring loop is watching and that is
\* still InProgress and below quorum after its expiry time eventually has
\* its status set to Expired, with no add_signature call needed, unless it
\* is cancelled first.
C8_WatchedEventuallyExpired ==
    \A ref \in RunIds :
        (Watched(ref) /\ store[ref].status = "in_progress"
            /\ is_expired(store[ref]) /\ ~is_complete(store[ref]))
        ~> (expirations[ref] > 0 \/ store[ref].status = "cancelled")

\* C8 witness: the monitor has set a watched collection to Expired although
\* no signature was ever submitted to it.
C8_Witness ==
    \E ref \in Live :
        /\ store[ref].status = "expired"
        /\ expirations[ref] = 1
        /\ store[ref].collected_signatures = EmptyBag

\* C9: a collection whose status is Completed, Expired or Cancelled is not
\* changed any more: no signature is appended and its status stays.
C9_TerminalCollectionImmutable ==
    [][\A ref \in Live :
          (store[ref].status \in TerminalCollectionStatus /\ ref \in Live')
              => store'[ref] = store[ref]]_vars

\* C10: the (status, phase) pair of a plan is one of the defined
\* combinations at every suspension point.
ValidPair(status, phase) ==
    /\ status \in {"pending", "in_progress"} => phase = "preparation"
    /\ status \in {"waiting_signatures", "ready_to_execute"}
            => phase = "signature_collection"
    /\ status = "executing" => phase \in {"contract_execution", "verification"}
    /\ status = "completed" => phase = "completion"

C10_StatusPhaseConsistent ==
    \A eid \in DOMAIN executions :
        ValidPair(executions[eid].status, executions[eid].current_phase)

\* What a cancel_execution call made in the current state returns and leaves.
CancelNow(eid) == cancel_execution(executions, store, collections, eid)

CancelChangesNothing(eid) ==
    /\ CancelNow(eid).executions = executions
    /\ CancelNow(eid).store = store

\* C11: cancel_execution called on a plan that is already Cancelled returns
\* false and changes neither the plan nor its signature collection.
C11_CancelIdempotent ==
    \A eid \in DOMAIN executions :
        executions[eid].status = "cancelled"
            => /\ ~CancelNow(eid).ok
               /\ CancelChangesNothing(eid)

\* C12: cancel_execution on a Completed or Executing plan returns false and
\* leaves the plan and its collection unchanged; on a Pending, InProgress,
\* WaitingSignatures or ReadyToExecute plan it returns true, the plan is
\* Cancelled afterwards and so is its signature collection if one exists.
C12_CancelByStatus ==
    \A eid \in DOMAIN executions :
        /\ executions[eid].status \in {"completed", "executing"}
              => /\ ~CancelNow(eid).ok
                 /\ CancelChangesNothing(eid)
        /\ executions[eid].status \in {"pending", "in_progress",
                                       "waiting_signatures", "ready_to_execute"}
              => /\ CancelNow(eid).ok
                 /\ CancelNow(eid).executions[eid].status = "cancelled"
                 /\ eid \in DOMAIN collections
                      => CancelNow(eid).store[collections[eid]].status
                            = "cancelled"

\* C12 witness: a cancellation went through on a plan that had a collection
\* under way, and both are Cancelled; a run is still suspended on the plan.
C12_Witness ==
    \E eid \in cancel_ok :
        /\ executions[eid].status = "cancelled"
        /\ eid \in DOMAIN collections
        /\ store[collections[eid]].status = "cancelled"
        /\ \E r \in RunIds : runs[r].pc = "waiting" /\ runs[r].execution_id = eid

\* The failed_step labels of an unsuccessful ExecutionResult.
FailedSteps == {"preparation", "signature_collection", "contract_execution",
                "verification"}

\* Run r returns in this step.
Returns(r) == runs[r].pc # "done" /\ runs'[r].pc = "done"

\* C13: whenever execute_plan returns an unsuccessful result because a phase
\* failed, the status get_execution_status reports for the plan is Failed.
C13_FailedRunStoresFailed ==
    [][\A r \in RunIds :
          (Returns(r) /\ runs'[r].result \in FailedSteps)
              => get_execution_status(executions', store', collections',
                                      runs'[r].execution_id).status = "failed"]_vars

\* C14: when a run that waits for signatures ends while its collection is
\* below quorum (and the plan was not cancelled), it ends with failed_step
\* 'signature_collection' and the plan Failed.
C14_TimeoutFailsPlan ==
    [][\A r \in RunIds :
          LET eid == runs[r].execution_id
          IN  (/\ runs[r].pc = "waiting"
               /\ Returns(r)
               /\ eid \notin cancel_ok
               /\ eid \in DOMAIN collections
               /\ ~is_complete(store[collections[eid]]))
                  => /\ runs'[r].result = "signature_collection"
                     /\ executions'[eid].status = "failed"]_vars

\* C15: when the payment fails after quorum was met, execute_plan returns
\* failed_step 'contract_execution', the plan is Failed, and the verified
\* signatures collected for the execution are still retrievable.
C15_SettlementFailureFailsPlan ==
    [][\A r \in RunIds :
          LET eid == runs[r].execution_id
          IN  (runs[r].pc = "paying" /\ Returns(r))
                  => /\ runs'[r].result = "contract_execution"
                     /\ executions'[eid].status = "failed"
                     /\ get_collected_signatures(store', collections', eid)
                            = get_collected_signatures(store, collections, eid)]_vars

\* The required count as the specification derives it from severity and
\* urgency.
RequiredBySeverityAndUrgency(severity_level, urgency_score) ==
    IF severity_level = "critical" \/ urgency_score >= 90 THEN 1
    ELSE IF severity_level = "high" \/ urgency_score >= 75 THEN 2
    ELSE 3

\* C16: for every severity and every urgency score in 0..100 the required
\* signature count of a plan is 1 when severity is Critical or urgency >= 90,
\* otherwise 2 when severity is High or urgency >= 75, otherwise 3.
C16_RequiredSignaturesRule ==
    \A eid \in DOMAIN executions :
        executions[eid].required_signatures =
            RequiredBySeverityAndUrgency(executions[eid].severity_level,
                                         executions[eid].urgency_score)

C18_TimelockRule ==
    \A eid \in DOMAIN executions :
        LET u == executions[eid].urgency_score
            t == executions[eid].timelock_hours
        IN  /\ u >= 90 => t = 1
            /\ (75 <= u /\ u < 90) => t = 3
            /\ (50 <= u /\ u < 75) => t = 6
            /\ u < 50 => t = 12

\* C18 witness: a plan created with urgency exactly 75 has a time-lock of
\* three hours.
C18_Witness ==
    \E eid \in DOMAIN executions :
        /\ executions[eid].urgency_score = 75
        /\ executions[eid].timelock_hours = 3

\* C19: for every severity, urgency score and amount the required signature
\* count of a plan is in 1..5 and its time-lock is one of 1, 3, 6, 12.
C19_PolicyRange ==
    \A eid \in DOMAIN executions :
        /\ executions[eid].required_signatures \in 1..5
        /\ executions[eid].timelock_hours \in {1, 3, 6, 12}

\* C19 witness: a plan created from the lowest severity and urgency 0
\* requires three signatures within twelve hours.
C19_Witness ==
    \E eid \in DOMAIN executions :
        /\ executions[eid].severity_level = "low"
        /\ executions[eid].urgency_score = 0
        /\ executions[eid].required_signatures = 3
        /\ executions[eid].timelock_hours = 12

\* Run r has left the signature phase with the plan ReadyToExecute: it is in
\* the settlement or the verification, or it has returned from them.
PassedReady(r) ==
    \/ runs[r].pc \in {"paying", "verify_transaction", "verify_funds"}
    \/ /\ runs[r].pc = "done"
       /\ runs[r].result \in {"success", "contract_execution", "verification"}

\* Run r waits for signatures and the guardians have submitted the required
\* number to its collection.
QuorumSubmitted(r) ==
    LET eid == runs[r].execution_id
    IN  /\ runs[r].pc = "waiting"
        /\ eid \in DOMAIN collections
        /\ SubmittedCount(store[collections[eid]])
              >= store[collections[eid]].required_signatures

\* C20: when the guardians have submitted required_signatures verified
\* signatures to the collection of a plan that waits for signatures, the
\* collection is Completed and the run eventually takes the plan through
\* ReadyToExecute into the settlement.
C20_QuorumLeadsToReady ==
    /\ [](\A ref \in Live :
            SubmittedCount(store[ref]) >= store[ref].required_signatures
                => store[ref].status = "completed")
    /\ \A r \in RunIds : QuorumSubmitted(r) ~> PassedReady(r)

\* C20 witness: a plan that needs two signatures got both from guardians'
\* submissions, none from the fan-out, and its payment was invoked.
C20_Witness ==
    \E i \in 1..Len(payments), ref \in Live :
        /\ payments[i].required = 2
        /\ store[ref].execution_id = payments[i].execution_id
        /\ SubmittedCount(store[ref]) = 2
        /\ MockCount(store[ref]) = 0
        /\ PassedReady(payments[i].run)

\* C21: the step of a successful add_signature in which the verified count
\* reaches required_signatures leaves the collection Completed; with one
\* required signature a single valid signature completes it, before the
\* monitor loop has looked at it.
C21_CompletedInSameStep ==
    [][\A ref \in RunIds :
          (/\ ref \in Live
           /\ SubmittedCount(store'[ref]) > SubmittedCount(store[ref])
           /\ collected_count(store'[ref]) >= store'[ref].required_signatures)
              => store'[ref].status = "completed"]_vars

\* C21 witness: a collection that needs one signature is Completed by a
\* single submitted signature while its monitor task has not run yet.
C21_Witness ==
    \E r \in RunIds :
        /\ monitors[r].pc = "scheduled"
        /\ runs[r].execution_id \in DOMAIN collections
        /\ LET c == store[collections[runs[r].execution_id]]
           IN  /\ c.required_signatures = 1
               /\ SubmittedCount(c) = 1
               /\ MockCount(c) = 0
               /\ c.status = "completed"

\* The ids add_signature is called with: the plans' ids and one no collection
\* was ever made for.
SubmissionIds == ExecIds \cup {"exec_unknown"}

\* What an add_signature call made in the current state returns and leaves.
SubmitNow(eid, g, v) == add_signature(store, collections, eid, g, v)

\* C22: add_signature returns false and leaves the collection unchanged when
\* no collection exists for the id, when the collection has expired, when
\* the guardian already has an entry, or when the verifier rejects.
C22_RejectedLeavesUnchanged ==
    \A eid \in SubmissionIds, g \in 1..Len(mock_guardians), v \in BOOLEAN :
        (\/ eid \notin DOMAIN collections
         \/ is_expired(store[collections[eid]])
         \/ HasSignatureOf(store[collections[eid]], g)
         \/ ~v)
            => /\ ~SubmitNow(eid, g, v).ok
               /\ SubmitNow(eid, g, v).store = store

\* C22 witness: a registered collection holds a guardian's submitted
\* signature and has expired, so every kind of rejection can occur.
C22_Witness ==
    \E eid \in DOMAIN collections :
        LET c == store[collections[eid]]
        IN  /\ is_expired(c)
            /\ SubmittedCount(c) = 1
            /\ MockCount(c) = 0

\* C23: execute_plan on a plan with no steps, an empty recipient address or
\* an amount of zero or less returns failed_step 'preparation' in its first
\* step, creates no signature collection, starts no fan-out and no monitor,
\* and no settlement payment is ever invoked for that plan.
C23_InvalidPlanFailsPreparation ==
    [][\A r \in RunIds :
          LET eid == runs'[r].execution_id
          IN  (/\ runs[r].pc = "idle"
               /\ runs'[r].pc # "idle"
               /\ eid \in DOMAIN executions
               /\ \/ executions[eid].steps = 0
                  \/ executions[eid].recipient_address = ""
                  \/ executions[eid].amount <= 0)
                  => /\ runs'[r] = Returned(eid, "preparation")
                     /\ collections' = collections
                     /\ store' = store
                     /\ monitors' = monitors
                     /\ \A i \in 1..Len(payments') :
                            payments'[i].execution_id # eid]_vars

\* C23 witness: both runs of a plan with amount zero have returned
\* 'preparation'.
C23_Witness ==
    \A r \in RunIds :
        /\ runs[r].result = "preparation"
        /\ executions[runs[r].execution_id].amount = 0

\* C24: every execute_plan invocation eventually returns.  A run that is in
\* its fan-out, its payment or its verification reaches the polling loop or
\* returns, and a run in the polling loop returns: when the collection is
\* never completed the loop ends with failed_step 'signature_collection'
\* once the plan's time-lock has elapsed.  The clock of the model stops at
\* MaxTime, so the second part is stated for the runs whose deadline the
\* clock can reach.
C24_EveryRunReturns ==
    \A r \in RunIds :
        /\ (runs[r].pc \in {"fanout", "paying", "verify_transaction",
                            "verify_funds"})
               ~> (runs[r].pc \in {"waiting", "done"})
        /\ (/\ runs[r].pc = "waiting"
            /\ runs[r].start_time
                  + executions[runs[r].execution_id].timelock_hours <= MaxTime)
               ~> (runs[r].pc = "done")

\* C24 witness: a run has returned failed_step 'signature_collection' and
\* its collection, below its quorum, was cancelled or has expired.
C24_Witness ==
    \E r \in RunIds :
        /\ runs[r].result = "signature_collection"
        /\ store[r].status \in {"cancelled", "expired"}
        /\ ~is_complete(store[r])

\* C25: the guardian response monitor invokes the escalation hook only when
\* timeout_minutes have elapsed without the responded-or-acknowledged
\* fraction of the roster reaching 0.7, and a monitor run that stops
\* because the fraction reached 0.7 never escalates.
C25_EscalatesOnlyOnSilentTimeout ==
    /\ response.escalations > 0
          => /\ response.clock >= response.timeout_time
             /\ ~response.in_time
    /\ response.stopped_by = "fraction" => response.escalations = 0

\* C26: once an emergency has gone through guardian notification, the
\* response monitor has been started if and only if its urgency score is at
\* least 80.
C26_MonitorStartedIffUrgent ==
    response.notified
        => (response.started <=> response.urgency_score >= MonitorUrgency)

\* C27: in every reachable state the number of verified signatures of a
\* collection is at most the size of the guardian roster the signature
\* requests of that collection are sent to (required_signatures plus the
\* buffer).
C27_CountWithinRoster ==
    \A ref \in Live :
        collected_count(store[ref]) <= RosterSize(store[ref].required_signatures)

\* C28: whenever the verified count of a collection is at least
\* required_signatures and the collection has not expired, its status is
\* Completed.
C28_QuorumMeansCompleted ==
    \A ref \in Live :
        (/\ collected_count(store[ref]) >= store[ref].required_signatures
         /\ ~is_expired(store[ref]))
            => store[ref].status = "completed"

\* C29: no guardian signature is appended to a collection after its
\* expires_at: a step that adds an entry to collected_signatures, through
\* add_signature or through the fan-out of start_collection, is taken while
\* the collection has not expired.
C29_NoAppendAfterExpiry ==
    [][\A ref \in RunIds :
          BagCardinality(store'[ref].collected_signatures)
              > BagCardinality(store[ref].collected_signatures)
                 => ~is_expired(store[ref])]_vars

\* C30: the signature-collection phase of a run succeeds, and the plan
\* becomes ReadyToExecute, only in a step in which the signature collection
\* of the plan exists and has status Completed; a missing, Cancelled or
\* Expired collection never lets the phase succeed.
C30_ReadyOnlyWhenCompleted ==
    [][\A r \in RunIds :
          (~PassedReady(r) /\ PassedReady(r)')
             => /\ runs'[r].execution_id \in DOMAIN collections'
                /\ store'[collections'[runs'[r].execution_id]].status
                      = "completed"]_vars

\* The phases of execute_plan in the order of its code.
ExecutionPhase ==
    <<"preparation", "signature_collection", "contract_execution",
      "verification", "completion">>

\* The number of the phase a run is in, or of the phase it returned from; 0
\* before the first phase.
PhaseIndex(run) ==
    CASE run.pc = "idle" -> 0
      [] run.pc \in {"fanout", "waiting"} -> 2
      [] run.pc = "paying" -> 3
      [] run.pc \in {"verify_transaction", "verify_funds"} -> 4
      [] run.pc = "done" /\ run.result = "success" -> 5
      [] run.pc = "done" /\ run.result = "not_found" -> 0
      [] OTHER -> CHOOSE i \in 1..Len(ExecutionPhase) :
                      ExecutionPhase[i] = run.result

\* C31: within one execute_plan run the phases are entered in the order
\* preparation, signature_collection, contract_execution, verification,
\* completion without skipping one: a step takes a run from a phase to the
\* next one only (the preparation phase has no sleep, so the first step of a
\* run passes through it), and the phase it enters is the one recorded on
\* the plan.
C31_PhasesInOrder ==
    [][\A r \in RunIds :
          LET p == PhaseIndex(runs[r])
              q == PhaseIndex(runs'[r])
          IN  /\ \/ q = p
                 \/ q = p + 1
                 \/ p = 0 /\ q = 2
              /\ (q # p) =>
                    executions'[runs'[r].execution_id].current_phase
                        = ExecutionPhase[q]]_vars

\* C31 witness: one run has gone through all five phases while the other
\* run of the plan waits for signatures.
C31_Witness ==
    \E r, q \in RunIds :
        /\ runs[r].result = "success"
        /\ runs[q].pc = "waiting"

\* C32: under any interleaving of add_signature calls from different
\* guardians on one execution id, a call that is accepted leaves exactly one
\* entry of its guardian and keeps every entry that was there; no step loses
\* an entry; and the status becomes Completed in the step in which the
\* verified count first reaches required_signatures, and stays Completed.
C32_AcceptedOnceNoneLost ==
    /\ [](\A eid \in DOMAIN collections, g \in AllGuardians, v \in BOOLEAN :
            LET res == SubmitNow(eid, g, v)
                ref == collections[eid]
            IN  res.ok =>
                  /\ ~HasSignatureOf(store[ref], g)
                  /\ res.store[ref].collected_signatures =
                        store[ref].collected_signatures
                           (+) SetToBag({GuardianSignature(g, "submitted")}))
    /\ [][\A ref \in Live :
            LET c == store[ref]
                d == store'[ref]
            IN  /\ c.collected_signatures \sqsubseteq d.collected_signatures
                /\ (c.status # "completed" /\ d.status = "completed")
                      <=> (~is_complete(c) /\ is_complete(d))
                /\ c.status = "completed" => d.status = "completed"]_vars

\* C32 witness: three guardians have submitted to a collection that needs
\* two signatures; it is Completed and holds one entry of each.
C32_Witness ==
    \E ref \in Live :
        /\ store[ref].required_signatures = 2
        /\ store[ref].status = "completed"
        /\ SubmittedCount(store[ref]) = 3
        /\ \A g \in AllGuardians : EntriesOf(store[ref], g) <= 1

\* The collector's objects after two add_signature calls made one after the
\* other in the current state.
SubmitBoth(eid, g1, v1, g2, v2) ==
    add_signature(add_signature(store, collections, eid, g1, v1).store,
                  collections, eid, g2, v2).store

\* C33: the outcome of a set of submissions made to a collection before its
\* expiry does not depend on the order in which they arrive: in every
\* reachable state any two submissions, applied in either order, leave the
\* same status and the same recorded signatures (every reordering of a
\* sequence of submissions is a chain of such exchanges).
C33_OrderIndependent ==
    \A eid \in DOMAIN collections, g1, g2 \in AllGuardians, v1, v2 \in BOOLEAN :
        ~is_expired(store[collections[eid]])
            => SubmitBoth(eid, g1, v1, g2, v2) = SubmitBoth(eid, g2, v2, g1, v1)

\* C33 witness: a collection that needs two signatures holds one submitted
\* signature and has not expired, so either of two further submissions
\* completes it.
C33_Witness ==
    \E eid \in DOMAIN collections :
        LET c == store[collections[eid]]
        IN  /\ ~is_expired(c)
            /\ c.required_signatures = 2
            /\ SubmittedCount(c) = 1
            /\ c.status = "in_progress"

\* C34: every started guardian response monitor eventually stops, and it
\* does not run on after the poll that follows its deadline; a monitor that
\* has stopped without the responded fraction having reached 0.7 before the
\* deadline has invoked the escalation hook exactly once, and no monitor
\* invokes it twice.  The clock of the model stops at MaxMinutes, so the
\* termination is stated for the monitors whose deadline it can reach.
C34_MonitorStopsEscalatingOnce ==
    /\ [](response.pc = "sleeping" =>
             response.clock <= response.timeout_time)
    /\ [](response.escalations <= 1)
    /\ []((response.pc = "done" /\ ~response.in_time) =>
             response.escalations = 1)
    /\ (\/ /\ response.pc = "created"
            /\ response.clock + DefaultTimeoutMinutes <= MaxMinutes
         \/ /\ response.pc = "sleeping"
            /\ response.timeout_time <= MaxMinutes)
           ~> (response.pc = "done")

\* C34 witness: the monitor of a roster of three has stopped at its
\* deadline, two guardians having responded, after one escalation.
C34_Witness ==
    /\ response.pc = "done"
    /\ response.total = 3
    /\ response.responded = 2
    /\ response.stopped_by = "timeout"
    /\ response.clock = response.timeout_time
    /\ response.escalations = 1

\* C35: in the step in which execute_plan returns success the plan has
\* status Completed and phase Completion, and the signature collector holds
\* no collection for the execution id.
C35_SuccessLeavesCompletedAndReleased ==
    [][\A r \in RunIds :
          (Returns(r) /\ runs'[r].result = "success")
             => /\ executions'[runs'[r].execution_id].status = "completed"
                /\ executions'[runs'[r].execution_id].current_phase
                      = "completion"
                /\ runs'[r].execution_id \notin DOMAIN collections']_vars

\* C35 witness: a run has returned success and released the collection that
\* the other run of the plan, still in its fan-out, had registered.
C35_Witness ==
    \E r, q \in RunIds :
        /\ runs[r].result = "success"
        /\ runs[q].pc = "fanout"
        /\ runs[q].execution_id = runs[r].execution_id
        /\ runs[r].execution_id \notin DOMAIN collections
        /\ executions[runs[r].execution_id].status = "completed"

\* C36: every create_execution_plan call yields an execution id that is not
\* in the registry yet: the call adds a plan and leaves every plan of the
\* registry as it was, also when two plans are created for one emergency
\* within a second.
C36_CreateNeverOverwrites ==
    [][/\ DOMAIN executions' # DOMAIN executions
       /\ \A eid \in DOMAIN executions : executions'[eid] = executions[eid]]_vars

\* C37: every plan stored in the registry has amount > 0 and
\* required_signatures >= 1.
C37_StoredPlanValid ==
    \A eid \in DOMAIN executions :
        /\ executions[eid].amount > 0
        /\ executions[eid].required_signatures >= 1

\* C38: a plan has status Completed only if a run of execute_plan on it has
\* returned success, having gone through both verification checks, and the
\* settlement payment was invoked in that run with at least
\* required_signatures verified signatures.
C38_CompletedOnlyAfterPaymentAndVerification ==
    \A eid \in DOMAIN executions :
        executions[eid].status = "completed"
            => \E r \in RunIds :
                  /\ runs[r] = Returned(eid, "success")
                  /\ \E i \in PaymentsOf(eid) :
                        /\ payments[i].run = r
                        /\ payments[i].held >= executions[eid].required_signatures

\* C38 witness: a plan that needs two signatures is Completed after exactly
\* one payment.
C38_Witness ==
    \E eid \in DOMAIN executions :
        /\ executions[eid].status = "completed"
        /\ executions[eid].required_signatures = 2
        /\ Cardinality(PaymentsOf(eid)) = 1

\* C39: for an execution id that is not in the registry cancel_execution
\* returns false and changes nothing, get_execution_status returns None,
\* and execute_plan returns the 'not found' result in its first step
\* without creating or changing a plan or a signature collection.
C39_UnknownIdChangesNothing ==
    /\ [](\A eid \in SubmissionIds \ DOMAIN executions :
            /\ ~CancelNow(eid).ok
            /\ CancelChangesNothing(eid)
            /\ ~get_execution_status(executions, store, collections, eid).found)
    /\ [][\A r \in RunIds :
            (/\ runs[r].pc = "idle"
             /\ runs'[r].pc # "idle"
             /\ runs'[r].execution_id \notin DOMAIN executions)
                => /\ runs'[r] = Returned(runs'[r].execution_id, "not_found")
                   /\ executions' = executions
                   /\ collections' = collections
                   /\ store' = store]_vars

\* C39 witness: execute_plan has returned 'not found' for an id before the
\* plan of that id was created; a later run of the plan waits for
\* signatures.
C39_Witness ==
    \E r, q \in RunIds :
        /\ runs[r].result = "not_found"
        /\ runs[q].pc = "waiting"
        /\ runs[q].execution_id = runs[r].execution_id

\* C40: for every plan whose status is ReadyToExecute, Executing or
\* Completed, get_execution_status reports collected_signatures of at least
\* required_signatures.
C40_ReportedCountMeetsQuorum ==
    \A eid \in DOMAIN executions :
        executions[eid].status \in {"ready_to_execute", "executing", "completed"}
            => LET report == get_execution_status(executions, store,
                                                  collections, eid)
               IN  report.collected_signatures >= report.required_signatures

====
